---- MODULE Spec2Model ----
(***************************************************************************)
(* Model of baselines/common/cmd_util.py: the residual argument parser     *)
(* parse_unknown_args, the environment factory make_env, the vectorized    *)
(* builder make_vec_env and make_mujoco_env.                               *)
(*                                                                         *)
(* Python str values that the code inspects character by character (the    *)
(* command-line tokens, the log directory) are sequences of one-character  *)
(* strings.  A Python dict is a function whose DOMAIN is its key set.      *)
(***************************************************************************)
EXTENDS Integers, Sequences, FiniteSets, TLC

\* ------------------------------------------------------------------ bounds
MaxArgs == 3        \* longest token sequence handed to parse_unknown_args
MaxBody == 2        \* longest token body (the part after an optional "--")
MaxEnv == 2         \* largest num_env
MaxRank == 1        \* largest MPI rank
MaxSeed == 1        \* largest seed argument
MaxStart == 1       \* largest start_index of a single-process run

\* the rank offset of make_vec_env: seed + 10000 * mpi_rank
SeedStride == 10000

\* ----------------------------------------------------------- Python strings
\* the characters a token is made of: the dash and the "=" the parser looks for
Chars == {"-", "="}

StrsUpTo(n) == UNION {[1..k -> Chars] : k \in 0..n}

DashDash == <<"-", "-">>

\* the tokens a command line can hold: plain tokens and "--" flag tokens
Tokens == StrsUpTo(MaxBody) \cup {DashDash \o b : b \in StrsUpTo(MaxBody)}

\* str.startswith('--')
StartsWithDashDash(s) == Len(s) >= 2 /\ s[1] = "-" /\ s[2] = "-"

\* '=' in arg
HasEq(s) == \E i \in 1..Len(s) : s[i] = "="

\* s[n:] for n >= 0
SliceFrom(s, n) == IF n >= Len(s) THEN <<>> ELSE SubSeq(s, n + 1, Len(s))

\* index of the first '=' of s, or 0
FirstEq(s) ==
  IF HasEq(s) THEN CHOOSE i \in 1..Len(s) : s[i] = "=" /\ \A j \in 1..(i - 1) : s[j] # "="
  ELSE 0

\* str.split('='): the list of the pieces between every '='
RECURSIVE SplitEq(_)
SplitEq(s) ==
  IF ~HasEq(s) THEN <<s>>
  ELSE <<SubSeq(s, 1, FirstEq(s) - 1)>> \o SplitEq(SliceFrom(s, FirstEq(s)))

\* ------------------------------------------------- parse_unknown_args state
\* a local variable that has not been assigned yet
Unbound == [bound |-> FALSE, val |-> <<>>]
Bound(v) == [bound |-> TRUE, val |-> v]

\* retval[key] = value
DictSet(d, k, v) == [x \in (DOMAIN d) \cup {k} |-> IF x = k THEN v ELSE d[x]]

EmptyDict == [x \in {} |-> <<>>]

\* the locals of parse_unknown_args before the loop
ParseStart == [retval |-> EmptyDict, key |-> Unbound, preceded_by_key |-> FALSE,
               err |-> "none"]

\* the '=' branch: key = arg.split('=')[0][2:]; value = arg.split('=')[1]
EqBranch(st, arg) ==
  LET parts == SplitEq(arg) IN
  IF Len(parts) < 2 THEN [st EXCEPT !.err = "IndexError"]
  ELSE [st EXCEPT !.key = Bound(SliceFrom(parts[1], 2)),
                  !.retval = DictSet(st.retval, SliceFrom(parts[1], 2), parts[2])]

\* the bare-key branch stores an empty value for the key
BareBranch_StoresEmpty(st, arg) ==
  [st EXCEPT !.key = Bound(SliceFrom(arg, 2)), !.preceded_by_key = TRUE,
             !.retval = DictSet(st.retval, SliceFrom(arg, 2), <<>>)]

\* the bare-key branch raises the flag without binding key
BareBranch_NoKey(st, arg) ==
  [st EXCEPT !.preceded_by_key = TRUE]

\* the bare-key branch: key = arg[2:]; preceded_by_key = True
BareBranch(st, arg) ==
  [st EXCEPT !.key = Bound(SliceFrom(arg, 2)), !.preceded_by_key = TRUE]

\* the value branch: retval[key] = arg; preceded_by_key = False
ValueBranch(st, arg) ==
  IF ~st.key.bound THEN [st EXCEPT !.err = "UnboundLocalError"]
  ELSE [st EXCEPT !.retval = DictSet(st.retval, st.key.val, arg),
                  !.preceded_by_key = FALSE]

\* one iteration of "for arg in args"
LoopBody(st, arg) ==
  IF StartsWithDashDash(arg)
  THEN IF HasEq(arg) THEN EqBranch(st, arg) ELSE BareBranch(st, arg)
  ELSE IF st.preceded_by_key THEN ValueBranch(st, arg) ELSE st

\* ------------------------------------------------------------ Python values
None == [type |-> "None"]
PyInt(n) == [type |-> "int", v |-> n]
Str(cs) == [type |-> "str", v |-> cs]
Dict(f) == [type |-> "dict", v |-> f]
\* a number, held in tenths so that 0.5 is a value: 1 is Num("int", 10)
Num(ty, tenths) == [type |-> ty, tenths |-> tenths]

IsNone(x) == x.type = "None"

\* bool(x) for None, str and dict
Truthy(x) ==
  CASE x.type = "None" -> FALSE
    [] x.type = "str"  -> Len(x.v) > 0
    [] x.type = "dict" -> DOMAIN x.v # {}

\* x != y on numbers: by value, an int equals the float of the same value
PyNe(x, y) == x.tenths # y.tenths

\* x or {}
OrEmptyDict(x) == IF Truthy(x) THEN x ELSE Dict(EmptyDict)

DigitChar == <<"0", "1", "2", "3", "4", "5", "6", "7", "8", "9">>

RECURSIVE NatStr(_)
NatStr(n) == IF n < 10 THEN <<DigitChar[n + 1]>>
             ELSE NatStr(n \div 10) \o <<DigitChar[(n % 10) + 1]>>

\* str(n) of an int
IntStr(n) == IF n < 0 THEN <<"-">> \o NatStr(0 - n) ELSE NatStr(n)

\* os.path.join(a, b) on POSIX
PathJoin(a, b) ==
  IF Len(b) > 0 /\ b[1] = "/" THEN b
  ELSE IF Len(a) = 0 \/ a[Len(a)] = "/" THEN a \o b
  ELSE a \o <<"/">> \o b

\* ------------------------------------------------------------------ make_env
\* identifiers whose base environment has a gym.spaces.Dict observation space
DictObsIds == {"FetchReach-v1"}

\* a wrapper (or the base environment) put around env
Wrap(env, name, arg) ==
  [layers |-> Append(env.layers, [name |-> name, arg |-> arg]),
   trace  |-> Append(env.trace, [op |-> name, on |-> Len(env.layers), arg |-> arg])]

\* a method call on env; on = the number of layers of the object called
Call(env, op, arg) ==
  [env EXCEPT !.trace = Append(@, [op |-> op, on |-> Len(env.layers), arg |-> arg])]

NotBuilt == [layers |-> <<>>, trace |-> <<>>]

\* lines 59-69: the base environment of the family
MakeBase(t) ==
  CASE t.env_type = "atari" -> Wrap(NotBuilt, "make_atari", Str(t.env_id))
    [] t.env_type = "retro" ->
         Wrap(NotBuilt, "make_retro",
              [game |-> t.env_id,
               state |-> IF Truthy(t.gamestate) THEN t.gamestate ELSE Str("DEFAULT"),
               max_episode_steps |-> 10000,
               use_restricted_actions |-> "DISCRETE"])
    [] OTHER -> Wrap(NotBuilt, "gym.make", Str(t.env_id))

\* lines 71-74
FlattenStep(env, t) ==
  IF t.flatten_dict_observations /\ t.env_id \in DictObsIds
  THEN Wrap(env, "FlattenDictWrapper", Str("dict_keys"))
  ELSE env

\* line 76: env.seed(seed + subrank if seed is not None else None)
SeedStep(env, t) ==
  Call(env, "seed", IF ~IsNone(t.seed) THEN PyInt(t.seed.v + t.subrank) ELSE None)

\* lines 79-80
ParamsStep(env, t) ==
  IF t.env_id = "priors-v0" THEN Call(env, "update_params", OrEmptyDict(t.wrapper_kwargs))
  ELSE env

\* the monitor file is named after the MPI rank alone
MonitorPath_RankOnly(dir, mpi_rank, subrank) ==
  IF Truthy(dir) THEN Str(PathJoin(dir.v, IntStr(mpi_rank)))
  ELSE dir

\* lines 82-83: logger.get_dir() and os.path.join(logger.get_dir(),
\*              str(mpi_rank) + '.' + str(subrank))
MonitorPath(dir, mpi_rank, subrank) ==
  IF Truthy(dir) THEN Str(PathJoin(dir.v, IntStr(mpi_rank) \o <<".">> \o IntStr(subrank)))
  ELSE dir

\* lines 82-84
MonitorStep(env, t, mpi_rank, dir) ==
  Wrap(env, "Monitor", MonitorPath(dir, mpi_rank, t.subrank))

\* lines 86-89
PostStep(env, t) ==
  CASE t.env_type = "atari" -> Wrap(env, "wrap_deepmind", OrEmptyDict(t.wrapper_kwargs))
    [] t.env_type = "retro" -> Wrap(env, "wrap_deepmind_retro", OrEmptyDict(t.wrapper_kwargs))
    [] OTHER -> env

\* the scale is compared with the int 1 by identity, so 1.0 is scaled too
ScaleStep_Identity(env, t) ==
  IF t.reward_scale # Num("int", 10) THEN Wrap(env, "RewardScaler", t.reward_scale)
  ELSE env

\* lines 91-92: if reward_scale != 1
ScaleStep(env, t) ==
  IF PyNe(t.reward_scale, Num("int", 10)) THEN Wrap(env, "RewardScaler", t.reward_scale)
  ELSE env

\* the monitor is put on before the environment is seeded, as in make_mujoco_env
make_env_MonitorFirst(t, mpi_rank, dir) ==
  ScaleStep(PostStep(ParamsStep(SeedStep(
    MonitorStep(FlattenStep(MakeBase(t), t), t, mpi_rank, dir), t), t), t), t)

\* lines 54-94, t = the keyword arguments
make_env(t, mpi_rank, dir) ==
  ScaleStep(PostStep(MonitorStep(ParamsStep(SeedStep(
    FlattenStep(MakeBase(t), t), t), t), t, mpi_rank, dir), t), t)

\* -------------------------------------------------------------- make_vec_env
\* the seed is handed on without the rank offset
BaseSeed_NoOffset(seed, mpi_rank) == seed

\* line 33: seed = seed + 10000 * mpi_rank if seed is not None else None
BaseSeed(seed, mpi_rank) ==
  IF ~IsNone(seed) THEN PyInt(seed.v + SeedStride * mpi_rank) ELSE None

\* lines 36-44: the closure make_thunk(rank) returns, as the keyword arguments
\* it passes to make_env
make_thunk(a, seed, rank) ==
  [env_id |-> a.env_id, env_type |-> a.env_type, subrank |-> rank, seed |-> seed,
   reward_scale |-> a.reward_scale, gamestate |-> a.gamestate,
   flatten_dict_observations |-> a.flatten_dict_observations,
   wrapper_kwargs |-> OrEmptyDict(a.wrapper_kwargs)]

\* every thunk is bound to the start index
Thunks_AllStartIndex(a, seed) ==
  IF a.num_env > 1
  THEN [i \in 1..a.num_env |-> make_thunk(a, seed, a.start_index)]
  ELSE <<make_thunk(a, seed, a.start_index)>>

\* lines 47-51: the list of thunks given to the vectorized environment
Thunks(a, seed) ==
  IF a.num_env > 1
  THEN [i \in 1..a.num_env |-> make_thunk(a, seed, (i - 1) + a.start_index)]
  ELSE <<make_thunk(a, seed, a.start_index)>>

NoHandle == [kind |-> "none"]

\* lines 22-51, a = the arguments; envs holds what each thunk has built
make_vec_env(a, mpi_rank) ==
  LET seed == BaseSeed(a.seed, mpi_rank)
      fns  == Thunks(a, seed) IN
  [kind |-> IF a.num_env > 1 THEN "SubprocVecEnv" ELSE "DummyVecEnv",
   env_fns |-> fns,
   envs |-> [i \in 1..Len(fns) |-> NotBuilt],
   global_seed |-> seed,
   call |-> a]

\* ----------------------------------------------------------- make_mujoco_env
\* lines 97-112; MPI is dereferenced without the "if MPI" guard
make_mujoco_env(a, has_mpi, rank, dir) ==
  IF ~has_mpi THEN [outcome |-> "AttributeError", call |-> a, env |-> NotBuilt,
                    global_seed |-> None]
  ELSE
    LET myseed == IF ~IsNone(a.seed) THEN PyInt(a.seed.v + 1000 * rank) ELSE None
        e1 == Wrap(NotBuilt, "gym.make", Str(a.env_id))
        logger_path == IF IsNone(dir) THEN None ELSE Str(PathJoin(dir.v, IntStr(rank)))
        e2 == Wrap(e1, "Monitor", logger_path)
        e3 == Call(e2, "seed", a.seed)
        e4 == IF PyNe(a.reward_scale, Num("float", 10))
              THEN Wrap(e3, "RewardScaler", a.reward_scale) ELSE e3 IN
    [outcome |-> "returned", call |-> a, env |-> e4, global_seed |-> myseed]

\* ------------------------------------------------------------- argument sets
Ranks == 0..MaxRank
Seeds == {None} \cup {PyInt(n) : n \in 0..MaxSeed}
EnvTypes == {"atari", "retro", "mujoco"}
EnvIds == {"priors-v0", "FetchReach-v1", "PongNoFrameskip-v4"}
RewardScales == {Num("int", 10), Num("float", 10), Num("float", 5), Num("int", 20)}
Kwargs == {None, Dict([frame_stack |-> TRUE])}
LogDirs == {None, Str(<<"/", "l">>), Str(<<"/", "l", "/">>)}

\* the calls of a single-process run: every argument varies
EnvCalls ==
  {a \in [env_id : EnvIds, env_type : EnvTypes, num_env : 0..MaxEnv, seed : Seeds,
          wrapper_kwargs : Kwargs, start_index : 0..MaxStart,
          reward_scale : RewardScales, flatten_dict_observations : BOOLEAN,
          gamestate : {None, Str("Level1")}] :
     a.env_type # "retro" => IsNone(a.gamestate)}

\* the calls of the ranks of one MPI job: the keyword defaults, replica counts
\* and start indices that vary from rank to rank, indices around the stride
RankCalls ==
  [env_id : {"PongNoFrameskip-v4"}, env_type : {"atari"}, num_env : 0..MaxEnv,
   seed : Seeds, wrapper_kwargs : {None},
   start_index : {0, SeedStride - 1, SeedStride},
   reward_scale : {Num("float", 10)}, flatten_dict_observations : {TRUE},
   gamestate : {None}]

MujocoCalls == [env_id : {"FetchReach-v1"}, seed : Seeds, reward_scale : RewardScales]

NoCall == [outcome |-> "none"]

VARIABLES
  args,              \* the tokens the loop has consumed so far
  retval,            \* parse_unknown_args: retval
  key,               \* parse_unknown_args: key (Unbound until assigned)
  preceded_by_key,   \* parse_unknown_args: preceded_by_key
  pc,                \* "loop", "done" (returned) or "raised"
  result,            \* the returned mapping once pc = "done"
  mpi,               \* the module-level MPI is not None (mpi4py imported)
  log_dir,           \* logger.get_dir()
  vec,               \* per process: the handle make_vec_env returned
  menv               \* the outcome of make_mujoco_env

vars == <<args, retval, key, preceded_by_key, pc, result, mpi, log_dir, vec, menv>>

parseVars == <<args, retval, key, preceded_by_key, pc, result>>
envVars == <<mpi, log_dir, vec, menv>>

Locals == [retval |-> retval, key |-> key, preceded_by_key |-> preceded_by_key,
           err |-> "none"]

InitParse ==
  /\ args = <<>>
  /\ retval = ParseStart.retval
  /\ key = ParseStart.key
  /\ preceded_by_key = ParseStart.preceded_by_key
  /\ pc = "loop"
  /\ result = EmptyDict

InitEnv ==
  /\ InitParse
  /\ mpi \in BOOLEAN
  /\ log_dir \in LogDirs
  /\ vec = [r \in Ranks |-> NoHandle]
  /\ menv = NoCall

Init ==
  /\ InitParse
  /\ mpi = FALSE /\ log_dir = None
  /\ vec = [r \in Ranks |-> NoHandle]
  /\ menv = NoCall

\* the loop takes the next token of the command line
Iterate ==
  /\ pc = "loop"
  /\ Len(args) < MaxArgs
  /\ \E arg \in Tokens :
       LET st == LoopBody(Locals, arg) IN
       /\ args' = Append(args, arg)
       /\ retval' = st.retval
       /\ key' = st.key
       /\ preceded_by_key' = st.preceded_by_key
       /\ pc' = IF st.err = "none" THEN "loop" ELSE "raised"
       /\ result' = result
  /\ UNCHANGED envVars

\* the token list is exhausted: return retval
Return ==
  /\ pc = "loop"
  /\ pc' = "done"
  /\ result' = retval
  /\ UNCHANGED <<args, retval, key, preceded_by_key>>
  /\ UNCHANGED envVars

Next == Iterate \/ Return

Spec == Init /\ [][Next]_vars

\* the replica positions a handle can have
Replicas == 1..(IF MaxEnv > 1 THEN MaxEnv ELSE 1)

\* the processes that exist: one per MPI rank, a single one without MPI
Procs == IF mpi THEN Ranks ELSE {0}

\* MPI.COMM_WORLD.Get_rank() if MPI else 0
GetRank(r) == IF mpi THEN r ELSE 0

Idle == menv = NoCall /\ \A q \in Ranks : vec[q] = NoHandle

\* process r calls make_vec_env(**a)
MakeVecEnv(r, a) ==
  /\ vec[r] = NoHandle
  /\ vec' = [vec EXCEPT ![r] = make_vec_env(a, GetRank(r))]
  /\ UNCHANGED <<mpi, log_dir, menv>>
  /\ UNCHANGED parseVars

\* the vectorized environment of process r invokes its i-th thunk
BuildEnv(r, i) ==
  /\ vec[r] # NoHandle
  /\ i \in 1..Len(vec[r].env_fns)
  /\ vec[r].envs[i] = NotBuilt
  /\ vec' = [vec EXCEPT ![r].envs[i] = make_env(vec[r].env_fns[i], GetRank(r), log_dir)]
  /\ UNCHANGED <<mpi, log_dir, menv>>
  /\ UNCHANGED parseVars

\* process r calls make_mujoco_env(**a)
MakeMujocoEnv(r, a) ==
  /\ menv = NoCall
  /\ menv' = make_mujoco_env(a, mpi, r, log_dir)
  /\ UNCHANGED <<mpi, log_dir, vec>>
  /\ UNCHANGED parseVars

\* a single process builds one environment set, with any arguments
NextEnv ==
  \/ Idle /\ \E r \in Procs, a \in EnvCalls : MakeVecEnv(r, a)
  \/ \E r \in Procs, i \in Replicas : BuildEnv(r, i)
  \/ Idle /\ \E r \in Procs, a \in MujocoCalls : MakeMujocoEnv(r, a)

SpecEnv == InitEnv /\ [][NextEnv]_vars

\* an MPI job: mpi4py is imported, no log directory is configured
InitRanks ==
  /\ InitParse
  /\ mpi = TRUE
  /\ log_dir = None
  /\ vec = [r \in Ranks |-> NoHandle]
  /\ menv = NoCall

\* the ranks of one MPI job, launched with one seed, each build their own set
NextRanks ==
  \/ \E r \in {p \in Procs : vec[p] = NoHandle}, a \in RankCalls :
       /\ \A q \in Ranks : vec[q] # NoHandle => vec[q].call.seed = a.seed
       /\ MakeVecEnv(r, a)
  \/ \E r \in Procs, i \in Replicas : BuildEnv(r, i)

SpecRanks == InitRanks /\ [][NextRanks]_vars

\* ------------------------------------------- what a token means to a reader
IsFlag(t) == StartsWithDashDash(t)
IsBareKey(t) == IsFlag(t) /\ ~HasEq(t)
IsKeyEqValue(t) == IsFlag(t) /\ HasEq(t)

\* the key a flag token names: what stands between the "--" and the first "="
FlagName(t) == IF HasEq(t) THEN SubSeq(t, 3, FirstEq(t) - 1) ELSE SubSeq(t, 3, Len(t))

\* everything after the first "=" of the token
RightSide(t) == SubSeq(t, FirstEq(t) + 1, Len(t))

Last(s) == s[Len(s)]

\* position j of args gives key k a value: "--k=v", or a bare "--k" followed by a non-flag
GivesValue(j, k) ==
  /\ IsFlag(args[j])
  /\ FlagName(args[j]) = k
  /\ \/ HasEq(args[j])
     \/ j < Len(args) /\ ~IsFlag(args[j + 1])

ValueGiven(j) == IF HasEq(args[j]) THEN RightSide(args[j]) ELSE args[j + 1]

\* position j of args is a bare key whose next token is missing or a flag
Valueless(j) ==
  /\ IsBareKey(args[j])
  /\ j = Len(args) \/ IsFlag(args[j + 1])

SetMax(S) == CHOOSE m \in S : \A x \in S : x <= m

\* C2: after a "--key=value" token is consumed, the mapping holds for the key
\* left of the first "=" the whole text right of the first "=".
C2_SplitOnceAtFirstEq ==
  (pc # "raised" /\ args # <<>> /\ IsKeyEqValue(Last(args)))
    => /\ FlagName(Last(args)) \in DOMAIN retval
       /\ retval[FlagName(Last(args))] = RightSide(Last(args))

\* C3: a non-flag token changes the mapping only when the token right before
\* it is a bare "--key"; then it becomes that key's value; anywhere else the
\* mapping stays as it was.
C3_NonFlagOnlyAfterBareKey ==
  [][(Len(args') = Len(args) + 1 /\ ~IsFlag(Last(args')) /\ pc' # "raised")
       => IF args # <<>> /\ IsBareKey(Last(args))
          THEN retval' = DictSet(retval, FlagName(Last(args)), Last(args'))
          ELSE retval' = retval]_vars

\* C4: consuming a bare "--key" leaves the mapping as it was, no input raises,
\* and a key whose only occurrences are bare ones followed by a flag or by the
\* end of the input is absent from the returned mapping.
C4_ValuelessKeyUnset ==
  /\ [][(Len(args') = Len(args) + 1 /\ IsBareKey(Last(args')))
          => (retval' = retval /\ pc' # "raised")]_vars
  /\ [](pc = "done" =>
         \A j \in 1..Len(args) :
           (/\ Valueless(j)
            /\ \A m \in 1..Len(args) :
                 (IsFlag(args[m]) /\ FlagName(args[m]) = FlagName(args[j])) => Valueless(m))
             => FlagName(args[j]) \notin DOMAIN result)

C4_Witness ==
  /\ pc = "done"
  /\ Len(args) = 3
  /\ Valueless(1) /\ IsKeyEqValue(args[2]) /\ Valueless(3)
  /\ FlagName(args[1]) # FlagName(args[2]) /\ FlagName(args[3]) # FlagName(args[2])
  /\ DOMAIN result = {FlagName(args[2])}

\* C5: a key given a value more than once has one entry in the returned
\* mapping, holding the value of its last value-bearing occurrence.
C5_LastOccurrenceWins ==
  pc = "done" =>
    \A k \in {FlagName(args[j]) : j \in {i \in 1..Len(args) : IsFlag(args[i])}} :
      LET occ == {j \in 1..Len(args) : GivesValue(j, k)} IN
      Cardinality(occ) >= 2 =>
        (k \in DOMAIN result /\ result[k] = ValueGiven(SetMax(occ)))

\* C10: no token sequence makes the parser raise: neither the store under an
\* unbound key (a value is pending only once key is bound) nor the index into
\* the "="-split fails, and what is returned is the mapping built by the
\* loop, its keys named by flag tokens of the input.
C10_Total ==
  /\ pc # "raised"
  /\ preceded_by_key => key.bound
  /\ pc = "done" =>
       /\ result = retval
       /\ \A k \in DOMAIN result : \E j \in 1..Len(args) : IsFlag(args[j]) /\ FlagName(args[j]) = k

C10_Witness ==
  /\ pc = "done"
  /\ Len(args) = 3
  /\ ~IsFlag(args[1]) /\ args[2] = DashDash /\ ~IsFlag(args[3])
  /\ DOMAIN result = {<<>>} /\ result[<<>>] = args[3]

\* ------------------------------------------- what a built environment shows
Handles == {r \in Ranks : vec[r] # NoHandle}
BuiltAt(r) == {i \in 1..Len(vec[r].envs) : vec[r].envs[i] # NotBuilt}
AllBuilt(r) == BuiltAt(r) = 1..Len(vec[r].envs)

Events(env, op) == {n \in 1..Len(env.trace) : env.trace[n].op = op}
LayersNamed(env, name) == {n \in 1..Len(env.layers) : env.layers[n].name = name}

\* the values env.seed() was called with
SeedsApplied(env) == {env.trace[n].arg : n \in Events(env, "seed")}

\* the replica count the caller asked for, and the index of its i-th replica
ReplicaIndex(a, i) == a.start_index + (i - 1)

\* C1: for N >= 1 the handle is built from exactly N thunks and replica i is
\* seeded once, with seed + 10000 * rank + start_index + i, or with None when
\* the seed is None.
C1_ReplicaSeeds ==
  \A r \in Handles :
    LET a == vec[r].call IN
    a.num_env >= 1 =>
      /\ Len(vec[r].env_fns) = a.num_env
      /\ \A i \in BuiltAt(r) :
           /\ Cardinality(Events(vec[r].envs[i], "seed")) = 1
           /\ SeedsApplied(vec[r].envs[i]) =
                {IF IsNone(a.seed) THEN None
                 ELSE PyInt(a.seed.v + 10000 * GetRank(r) + a.start_index + (i - 1))}

C1_Witness ==
  \E r \in Handles :
    /\ mpi /\ r > 0
    /\ vec[r].call.num_env > 1 /\ vec[r].call.start_index > 0
    /\ ~IsNone(vec[r].call.seed)
    /\ AllBuilt(r)

\* the seeds the built replicas of process r were given
SeedSet(r) == UNION {SeedsApplied(vec[r].envs[i]) : i \in BuiltAt(r)}

\* C6 as stated: two ranks called with the same non-null seed never share a
\* replica seed, whatever their replica counts and start indices.
C6_RanksSeedDisjoint ==
  \A r1 \in Handles, r2 \in Handles :
    (/\ r1 # r2 /\ mpi
     /\ ~IsNone(vec[r1].call.seed)
     /\ vec[r1].call.seed = vec[r2].call.seed)
      => SeedSet(r1) \cap SeedSet(r2) = {}

\* every replica index of the call lies in 0 .. 9999
WithinStride(a) ==
  /\ a.start_index >= 0
  /\ a.start_index + (IF a.num_env > 1 THEN a.num_env ELSE 1) <= 10000

\* C6 amended: two ranks called with the same non-null seed never share a
\* replica seed, provided the replica indices of both calls lie in 0 .. 9999.
C6_RanksSeedDisjointWithinStride ==
  \A r1 \in Handles, r2 \in Handles :
    (/\ r1 # r2 /\ mpi
     /\ ~IsNone(vec[r1].call.seed)
     /\ vec[r1].call.seed = vec[r2].call.seed
     /\ WithinStride(vec[r1].call) /\ WithinStride(vec[r2].call))
      => SeedSet(r1) \cap SeedSet(r2) = {}

C6_Witness ==
  /\ mpi
  /\ 0 \in Handles /\ 1 \in Handles
  /\ ~IsNone(vec[0].call.seed)
  /\ vec[0].call.start_index = 9999 /\ vec[0].call.num_env = 1
  /\ vec[1].call.start_index = 0 /\ vec[1].call.num_env > 1
  /\ AllBuilt(0) /\ AllBuilt(1)

\* a chain is scaled by s: its outermost wrapper is a RewardScaler holding s
ScaledBy(env, s) ==
  /\ LayersNamed(env, "RewardScaler") = {Len(env.layers)}
  /\ env.layers[Len(env.layers)].arg = s

\* C7: make_env and make_mujoco_env return a chain without RewardScaler when
\* reward_scale is 1 (1 or 1.0), and a chain whose outermost wrapper is a
\* RewardScaler with that factor for any other value.
C7_ScalerIffNotOne ==
  /\ \A r \in Handles : \A i \in BuiltAt(r) :
       LET s == vec[r].call.reward_scale IN
       IF s.tenths = 10 THEN LayersNamed(vec[r].envs[i], "RewardScaler") = {}
       ELSE ScaledBy(vec[r].envs[i], s)
  /\ menv # NoCall /\ menv.outcome = "returned" =>
       LET s == menv.call.reward_scale IN
       IF s.tenths = 10 THEN LayersNamed(menv.env, "RewardScaler") = {}
       ELSE ScaledBy(menv.env, s)

C7_Witness ==
  \E r \in Handles :
    /\ vec[r].call.reward_scale = Num("float", 10)
    /\ vec[r].call.env_type = "atari"
    /\ AllBuilt(r)
    /\ \A i \in BuiltAt(r) :
         vec[r].envs[i].layers[Len(vec[r].envs[i].layers)].name = "wrap_deepmind"

\* the path the episode monitor of env was given
MonitorPaths(env) == {env.layers[n].arg : n \in LayersNamed(env, "Monitor")}

StripSlash(d) == IF Len(d) > 0 /\ d[Len(d)] = "/" THEN SubSeq(d, 1, Len(d) - 1) ELSE d

\* C8: with a log directory the monitor of replica i gets the file
\* <rank>.<replica index> in that directory, without one it gets no path; so
\* the replicas of one call get pairwise distinct paths.
C8_MonitorPath ==
  \A r \in Handles :
    LET a == vec[r].call IN
    /\ \A i \in BuiltAt(r) :
         \A p \in MonitorPaths(vec[r].envs[i]) :
           IF IsNone(log_dir) THEN IsNone(p)
           ELSE /\ p.type = "str"
                /\ p.v = StripSlash(log_dir.v) \o <<"/">> \o IntStr(GetRank(r))
                           \o <<".">> \o IntStr(ReplicaIndex(a, i))
    /\ ~IsNone(log_dir) =>
         \A i \in BuiltAt(r), j \in BuiltAt(r) :
           i # j => MonitorPaths(vec[r].envs[i]) \cap MonitorPaths(vec[r].envs[j]) = {}

C8_Witness ==
  \E r \in Handles :
    /\ mpi /\ r > 0
    /\ ~IsNone(log_dir)
    /\ vec[r].call.num_env > 1 /\ vec[r].call.start_index > 0
    /\ AllBuilt(r)

\* the place of an operation in the order of make_env
StepOrder(op) ==
  CASE op \in {"make_atari", "make_retro", "gym.make"} -> 1
    [] op = "FlattenDictWrapper" -> 2
    [] op = "seed" -> 3
    [] op = "update_params" -> 4
    [] op = "Monitor" -> 5
    [] op \in {"wrap_deepmind", "wrap_deepmind_retro"} -> 6
    [] op = "RewardScaler" -> 7

\* C9: make_env constructs, flattens, seeds, calls update_params (priors-v0
\* only), monitors, post-processes (atari and retro only) and scales in that
\* order; seed and update_params are called on a chain without a monitor.
C9_FixedOrder ==
  \A r \in Handles : \A i \in BuiltAt(r) :
    LET env == vec[r].envs[i]
        a   == vec[r].call
        tr  == env.trace IN
    /\ \A m \in 1..Len(tr), n \in 1..Len(tr) :
         m < n => StepOrder(tr[m].op) < StepOrder(tr[n].op)
    /\ \A k \in {1, 3, 5} : \E n \in 1..Len(tr) : StepOrder(tr[n].op) = k
    /\ (Events(env, "update_params") # {}) <=> (a.env_id = "priors-v0")
    /\ (\E n \in 1..Len(tr) : StepOrder(tr[n].op) = 6) <=> (a.env_type \in {"atari", "retro"})
    /\ \A n \in Events(env, "seed") \cup Events(env, "update_params") :
         \A l \in LayersNamed(env, "Monitor") : tr[n].on < l
    /\ \A m \in 1..Len(env.layers), n \in 1..Len(env.layers) :
         m < n => StepOrder(env.layers[m].name) < StepOrder(env.layers[n].name)

C9_Witness ==
  \E r \in Handles : \E i \in BuiltAt(r) :
    /\ vec[r].call.env_id = "priors-v0"
    /\ vec[r].call.env_type = "retro"
    /\ Len(vec[r].envs[i].trace) = 6
    /\ Len(vec[r].envs[i].layers) = 4

====
